---------------------------- MODULE Spec2Model ----------------------------
(* Model of src/script.js: a particle field that starts as an idle rotating *)
(* sphere, morphs into a grid once the webcam and the face detector are     *)
(* ready, and is then driven by video frames and face tracking.             *)
(*                                                                          *)
(* Numbers are fixed point.  Positions, rotations, colours, brightness and  *)
(* the HSL saturation and lightness are in thousandths; hues are in        *)
(* 6000ths of a turn (so 1/6, 1/3, 1/2 and 2/3 are exact); time is in       *)
(* steps of 500 ms.  Products are divided with Quot, which truncates        *)
(* toward zero.                                                             *)
EXTENDS Integers, Sequences, FiniteSets, TLC

\* ------------------------------------------------------------------ bounds
\* The grid is scaled down from 160 x 125.
gridCols == 2
gridRows == 2
\* Horizon of the model: calls of animate after init, calls of detectFace.
MaxRenderTicks == 2
MaxDetectTicks == 2
\* Length of a smoothing run: calls of animate under one frame and target.
MaxSmoothTicks == 45

\* --------------------------------------------------------------- constants
particleCount == gridCols * gridRows
\* setTimeout(triggerMorphSequence, 2000), in steps of 500 ms
MorphDelay == 4
\* gsap.to(animObj, {duration: 3}), in steps of 500 ms
MorphDuration == 6
\* gsap.to(particles.rotation, {duration: 2.5}), in steps of 500 ms
ResetDuration == 5
\* getUserMedia({video: {width: {ideal: 640}, height: {ideal: 480}}})
VideoWidth == 640
VideoHeight == 480

Particles == 1 .. particleCount

\* ------------------------------------------------------------- arithmetic
Quot(a, b) ==
  IF a >= 0 THEN a \div b ELSE -((-a) \div b)

Clamp(x, lo, hi) ==
  IF x < lo THEN lo ELSE IF x > hi THEN hi ELSE x

\* ----------------------------------------------------------------- themes
ThemeKeys == {"cosmic", "neon", "sunset", "ocean", "matrix"}

themes ==
  [k \in ThemeKeys |->
     CASE k = "cosmic" -> [h |-> 3600, s |-> 700,  l |-> 500]
       [] k = "neon"   -> [h |-> 2400, s |-> 1000, l |-> 500]
       [] k = "sunset" -> [h |-> 300,  s |-> 900,  l |-> 500]
       [] k = "ocean"  -> [h |-> 3300, s |-> 800,  l |-> 500]
       [] k = "matrix" -> [h |-> 1980, s |-> 1000, l |-> 500]]

\* THREE.Color.setHSL: hue2rgb(p, q, t) with t in 6000ths of a turn.
Hue2RGB(p, q, t0) ==
  LET t1 == IF t0 < 0 THEN t0 + 6000 ELSE t0
      t  == IF t1 > 6000 THEN t1 - 6000 ELSE t1
  IN  IF t < 1000 THEN p + Quot((q - p) * t, 1000)
      ELSE IF t < 3000 THEN q
      ELSE IF t < 4000 THEN p + Quot((q - p) * (4000 - t), 1000)
      ELSE p

\* THREE.Color.setHSL(h, s, l): hue modulo 1, saturation and lightness
\* clamped to [0,1].
SetHSL(h0, s0, l0) ==
  LET h == h0 % 6000
      s == Clamp(s0, 0, 1000)
      l == Clamp(l0, 0, 1000)
      p == IF l <= 500 THEN Quot(l * (1000 + s), 1000)
                       ELSE l + s - Quot(l * s, 1000)
      q == 2 * l - p
  IN  IF s = 0 THEN [r |-> l, g |-> l, b |-> l]
      ELSE [r |-> Hue2RGB(q, p, h + 2000),
            g |-> Hue2RGB(q, p, h),
            b |-> Hue2RGB(q, p, h - 2000)]

\* ----------------------------------------------------------------- shapes
\* spherePositions of calculatePositions, rounded to thousandths, for the
\* particle counts the bounds can produce.
SphereTable(n) ==
  CASE n = 1 -> << <<0, 0, -12000>> >>
    [] n = 2 -> << <<0, 0, -12000>>, <<-8396, -8573, 0>> >>
    [] n = 3 -> << <<0, 0, -12000>>, <<10342, -4588, -4000>>, <<-9092, -6733, 4000>> >>
    [] n = 4 -> << <<0, 0, -12000>>, <<4328, 9448, -6000>>, <<9062, -7866, 0>>, <<-8746, -5613, 6000>> >>
    [] n = 5 -> << <<0, 0, -12000>>, <<-7649, 5801, -7200>>, <<8679, 7932, -2400>>, <<7710, -8877, 2400>>, <<-8266, -4883, 7200>> >>
    [] n = 6 -> << <<0, 0, -12000>>, <<-7563, -4775, -8000>>, <<-4832, 10230, -4000>>, <<10313, 6135, 0>>, <<6683, -9129, 4000>>, <<-7806, -4366, 8000>> >>
    [] n = 7 -> << <<0, 0, -12000>>, <<852, -8355, -8571>>, <<-10840, -200, -5143>>, <<-2178, 11675, -1714>>, <<10889, 4743, 1714>>, <<5913, -9088, 5143>>, <<-7396, -3979, 8571>> >>
    [] n = 8 -> << <<0, 0, -12000>>, <<7181, -3381, -9000>>, <<-4944, -9141, -6000>>, <<-11156, 3247, -3000>>, <<-250, 11997, 0>>, <<11011, 3709, 3000>>, <<5321, -8927, 6000>>, <<-7034, -3677, 9000>> >>
    [] n = 9 -> << <<0, 0, -12000>>, <<6528, 3777, -9333>>, <<4687, -8808, -6667>>, <<-8395, -7585, -4000>>, <<-10577, 5510, -1333>>, <<1114, 11874, 1333>>, <<10927, 2933, 4000>>, <<4854, -8718, 6667>>, <<-6716, -3433, 9333>> >>

spherePositions == SphereTable(particleCount)

\* GRID POSITIONS of calculatePositions; particle i of the code is i + 1 here.
gridPositions ==
  [p \in Particles |->
     LET i   == p - 1
         col == i % gridCols
         row == i \div gridCols
         u   == Quot(col * 1000, gridCols)
         v   == Quot(row * 1000, gridRows)
     IN  << (u - 500) * 32,
            -((v - 500) * 25),
            0 >>]

\* Init colors of createParticles: setHSL(0.6, 0.8, 0.5 + z/20).
InitColors ==
  [p \in Particles |->
     LET c == SetHSL(3600, 800, 500 + Quot(spherePositions[p][3], 20))
     IN  << c.r, c.g, c.b >>]


\* ------------------------------------------------------------------ state
VARIABLES
  currentState,     \* 'sphere' -> 'morphing' -> 'face'
  targetRotationX,
  targetRotationY,
  currentTheme,     \* the theme record currentTheme refers to
  positions,        \* particles.geometry.attributes.position.array
  colors,           \* particles.geometry.attributes.color.array
  rotation,         \* particles.rotation
  canvasData,       \* RGBA pixels of faceCanvas
  cameraZ,          \* camera.position.z
  cameraAspect,     \* camera.aspect, in hundredths
  rendererSize,     \* aspect the renderer was last sized to, in hundredths
  innerAspect,      \* window.innerWidth / window.innerHeight, in hundredths
  webcamPc,         \* where setupWebcam is waiting
  faceModel,        \* TRUE once blazeface.load() has resolved
  readyState,       \* video.readyState
  morphTimer,       \* the timeout of setupWebcam: "unset", "pending", "fired"
  timerTime,        \* time the pending timeout has waited
  animObj,          \* animObj.t, in thousandths
  morphTween,       \* "none", "active", "done"
  rotationTween,    \* the reset tween: [active, from]
  tweenTime,        \* time since the tweens were created, at the last gsap tick
  estimatesInFlight, \* pending promises of faceModel.estimateFaces
  detectScheduled,  \* pending requestAnimationFrame(detectFace) callbacks
  resized,          \* TRUE once the resize listener has run
  renderTicks,      \* calls of animate by requestAnimationFrame
  detectTicks,      \* calls of detectFace
  lastThemeCmd      \* key of the last changeTheme command

vars ==
  << currentState, targetRotationX, targetRotationY, currentTheme, positions,
     colors, rotation, canvasData, cameraZ, cameraAspect, rendererSize,
     innerAspect, webcamPc, faceModel, readyState, morphTimer, timerTime, animObj,
     morphTween, rotationTween, tweenTime, estimatesInFlight, detectScheduled,
     resized, renderTicks, detectTicks, lastThemeCmd >>

\* Where the detection loop is: awaiting estimateFaces, waiting for its
\* requestAnimationFrame callback, or not running.
detectPc ==
  IF estimatesInFlight > 0 THEN "estimating"
  ELSE IF detectScheduled > 0 THEN "scheduled"
  ELSE "idle"


\* ----------------------------------------------------------------- inputs
\* Viewport aspect ratios, in hundredths: portrait, near square, landscape.
Aspects == {60, 85, 160}

\* Video frames at grid resolution (RGB, 0..255), before mirroring.
FrameWhite == [p \in Particles |-> <<255, 255, 255>>]
FramePattern == [p \in Particles |-> IF p % 2 = 1 THEN <<255, 0, 0>> ELSE <<0, 64, 128>>]
Frames == {FrameWhite, FramePattern}

\* A frame of a covered or unlit camera, and the frames of the smoothing runs.
FrameBlack == [p \in Particles |-> <<0, 0, 0>>]
SteadyFrames == Frames \cup {FrameBlack}

\* Results of faceModel.estimateFaces: no face, one face, two faces.
BoxA == [topLeft |-> <<64, 48>>, bottomRight |-> <<320, 240>>]
BoxB == [topLeft |-> <<400, 300>>, bottomRight |-> <<600, 450>>]
Predictions == {<< >>, <<BoxA>>, <<BoxA, BoxB>>}

\* ---------------------------------------------------------------- helpers
\* adjustCamera: camera.position.z for an aspect ratio in hundredths.
CameraDistance(aspect) ==
  IF aspect < 70 THEN 40 ELSE IF aspect < 100 THEN 35 ELSE 25

\* ease "power3.inOut" of the morph tween at time e, in thousandths.
EasePower3InOut(e) ==
  LET D == MorphDuration
  IN  IF 2 * e < D THEN Quot(4 * e * e * e * 1000, D * D * D)
      ELSE 1000 - Quot(4 * (D - e) * (D - e) * (D - e) * 1000, D * D * D)

\* ease "power2.out" of the rotation reset tween at time e, in thousandths.
EasePower2Out(e) ==
  LET D == ResetDuration
  IN  1000 - Quot((D - e) * (D - e) * 1000, D * D)

Min(a, b) ==
  IF a < b THEN a ELSE b

\* Mutant: the depth component is left out of the interpolation.
MorphUpdateFlat(t) ==
  [p \in Particles |->
     [c \in 1 .. 3 |->
        IF c = 3 THEN spherePositions[p][c]
        ELSE spherePositions[p][c]
               + Quot((gridPositions[p][c] - spherePositions[p][c]) * t, 1000)]]

\* Mutant: the interpolation runs from the grid to the sphere.
MorphUpdateSwapped(t) ==
  [p \in Particles |->
     [c \in 1 .. 3 |->
        gridPositions[p][c]
          + Quot((spherePositions[p][c] - gridPositions[p][c]) * t, 1000)]]

\* onUpdate of the morph tween: lerp between sphere and grid.  At t = 0 and
\* t = 1 the fixed-point result is exact, as the Float32Array store is in
\* the code (the double result lies within one double ulp of a float32).
MorphUpdate(t) ==
  [p \in Particles |->
     [c \in 1 .. 3 |->
        spherePositions[p][c]
          + Quot((gridPositions[p][c] - spherePositions[p][c]) * t, 1000)]]

\* Mutant: the reset tween animates x and y only.
ResetUpdateNoRoll(from, e) ==
  LET k == EasePower2Out(e)
  IN  [x |-> from.x + Quot((0 - from.x) * k, 1000),
       y |-> from.y + Quot((0 - from.y) * k, 1000),
       z |-> from.z]

\* The reset tween's write of particles.rotation, from `from` toward 0.
ResetUpdate(from, e) ==
  LET k == EasePower2Out(e)
  IN  [x |-> from.x + Quot((0 - from.x) * k, 1000),
       y |-> from.y + Quot((0 - from.y) * k, 1000),
       z |-> from.z + Quot((0 - from.z) * k, 1000)]

\* drawImage under scale(-1, 1): the canvas holds the frame mirrored
\* horizontally, fully opaque.
DrawMirrored(frame) ==
  [p \in Particles |->
     LET i   == p - 1
         col == i % gridCols
         row == i \div gridCols
         src == row * gridCols + (gridCols - 1 - col) + 1
     IN  << frame[src][1], frame[src][2], frame[src][3], 255 >>]

\* Luma of a canvas pixel, in thousandths.
Brightness(px) ==
  LET r == Quot(px[1] * 1000, 255)
      g == Quot(px[2] * 1000, 255)
      b == Quot(px[3] * 1000, 255)
  IN  Quot(299 * r + 587 * g + 114 * b, 1000)

\* Z-DEPTH LOGIC: the depth a pixel calls for, brightness * 8 - 2.
TargetZ(px) ==
  Brightness(px) * 8 - 2000

\* Mutant: a smoothing gain above 1.
SampleDepthOvershoot(z, px) ==
  LET targetZ == TargetZ(px)
  IN  z + Quot((targetZ - z) * 115, 100)

\* Z-DEPTH LOGIC: the smoothed z of one particle.
SampleDepth(z, px) ==
  LET targetZ == TargetZ(px)
  IN  z + Quot((targetZ - z) * 15, 100)

\* Mutant: half of the raw colour leaks through instead of a fifth.
SampleColorHalfRaw(theme, px) ==
  LET themeColor == SetHSL(theme.h, theme.s, theme.l)
      brightness == Brightness(px)
  IN  << Quot(themeColor.r * brightness, 1000) + Quot(Quot(px[1] * 1000, 255) * 5, 10),
         Quot(themeColor.g * brightness, 1000) + Quot(Quot(px[2] * 1000, 255) * 5, 10),
         Quot(themeColor.b * brightness, 1000) + Quot(Quot(px[3] * 1000, 255) * 5, 10) >>

\* Mutant: the blend always uses the default theme's colour.
SampleColorNoTheme(theme, px) ==
  LET themeColor == SetHSL(themes["cosmic"].h, themes["cosmic"].s, themes["cosmic"].l)
      brightness == Brightness(px)
  IN  << Quot(themeColor.r * brightness, 1000) + Quot(Quot(px[1] * 1000, 255) * 2, 10),
         Quot(themeColor.g * brightness, 1000) + Quot(Quot(px[2] * 1000, 255) * 2, 10),
         Quot(themeColor.b * brightness, 1000) + Quot(Quot(px[3] * 1000, 255) * 2, 10) >>

\* COLOR LOGIC: the colour of one particle under a theme.
SampleColor(theme, px) ==
  LET themeColor == SetHSL(theme.h, theme.s, theme.l)
      brightness == Brightness(px)
  IN  << Quot(themeColor.r * brightness, 1000) + Quot(Quot(px[1] * 1000, 255) * 2, 10),
         Quot(themeColor.g * brightness, 1000) + Quot(Quot(px[2] * 1000, 255) * 2, 10),
         Quot(themeColor.b * brightness, 1000) + Quot(Quot(px[3] * 1000, 255) * 2, 10) >>

\* Head tracking of animate: smoothing of one applied angle toward its target.
SmoothRotation(applied, target) ==
  applied + Quot(target - applied, 10)

\* detectFace after estimateFaces: the new <<targetRotationX, targetRotationY>>.
TrackFace(predictions, tx, ty) ==
  IF Len(predictions) > 0
  THEN LET start == predictions[1].topLeft
           end   == predictions[1].bottomRight
           size  == << end[1] - start[1], end[2] - start[2] >>
           faceX == Quot((2 * start[1] + size[1]) * 1000, 2 * VideoWidth)
           faceY == Quot((2 * start[2] + size[2]) * 1000, 2 * VideoHeight)
       IN  << Quot(faceY - 500, 2), faceX - 500 >>
  ELSE << Quot(tx * 95, 100), Quot(ty * 95, 100) >>


\* ------------------------------------------------------------------- init
\* The idle spin of animate, applied to particles.rotation.
IdleSpin(rot) ==
  [rot EXCEPT !.y = @ + 3, !.z = @ + 1]

\* The state after init() has returned: the camera is fitted, the particles
\* sit on the sphere, setupWebcam waits for getUserMedia and animate has run
\* once.
Init ==
  /\ currentState = "sphere"
  /\ targetRotationX = 0
  /\ targetRotationY = 0
  /\ currentTheme = themes["cosmic"]
  /\ lastThemeCmd = "cosmic"
  /\ positions = spherePositions
  /\ colors = InitColors
  /\ rotation = IdleSpin([x |-> 0, y |-> 0, z |-> 0])
  /\ canvasData = [p \in Particles |-> <<0, 0, 0, 0>>]
  /\ innerAspect \in Aspects
  /\ cameraZ = CameraDistance(innerAspect)
  /\ cameraAspect = innerAspect
  /\ rendererSize = innerAspect
  /\ webcamPc = "getUserMedia"
  /\ faceModel = FALSE
  /\ readyState = 0
  /\ morphTimer = "unset"
  /\ timerTime = 0
  /\ animObj = 0
  /\ morphTween = "none"
  /\ rotationTween = [active |-> FALSE, from |-> [x |-> 0, y |-> 0, z |-> 0]]
  /\ tweenTime = 0
  /\ estimatesInFlight = 0
  /\ detectScheduled = 0
  /\ resized = FALSE
  /\ renderTicks = 0
  /\ detectTicks = 0

\* ----------------------------------------------------------- setupWebcam
scene == << currentState, positions, colors, rotation, canvasData, animObj,
            morphTween, rotationTween, tweenTime >>
tracking == << targetRotationX, targetRotationY, estimatesInFlight,
               detectScheduled, detectTicks >>
cameraVars == << cameraZ, cameraAspect, rendererSize, innerAspect, resized >>
themeVars == << currentTheme, lastThemeCmd >>
timerVars == << morphTimer, timerTime >>

\* getUserMedia resolves; video.srcObject = stream.
GetUserMediaResolve ==
  /\ webcamPc = "getUserMedia"
  /\ webcamPc' = "loadedmetadata"
  /\ UNCHANGED << scene, tracking, cameraVars, themeVars, timerVars,
                  faceModel, readyState, renderTicks >>

\* Mutant: the morph timeout is set although the camera failed.
GetUserMediaRejectArmsMorph ==
  /\ webcamPc = "getUserMedia"
  /\ webcamPc' = "cameraFailed"
  /\ morphTimer' = "pending"
  /\ UNCHANGED << scene, tracking, cameraVars, themeVars, timerTime,
                  faceModel, readyState, renderTicks >>

\* getUserMedia rejects (permission denied, no capture device): the catch
\* block logs and setupWebcam ends.
GetUserMediaReject ==
  /\ webcamPc = "getUserMedia"
  /\ webcamPc' = "cameraFailed"
  /\ UNCHANGED << scene, tracking, cameraVars, themeVars, timerVars,
                  faceModel, readyState, renderTicks >>

\* video.onloadedmetadata fires; video.play() is called.
LoadedMetadata ==
  /\ webcamPc = "loadedmetadata"
  /\ webcamPc' = "play"
  /\ readyState' = 1
  /\ UNCHANGED << scene, tracking, cameraVars, themeVars, timerVars,
                  faceModel, renderTicks >>

\* video.play() resolves; blazeface.load() is called.
PlayResolve ==
  /\ webcamPc = "play"
  /\ webcamPc' = "load"
  /\ readyState' = 4
  /\ UNCHANGED << scene, tracking, cameraVars, themeVars, timerVars,
                  faceModel, renderTicks >>

\* video.play() rejects: catch block.
PlayReject ==
  /\ webcamPc = "play"
  /\ webcamPc' = "playFailed"
  /\ UNCHANGED << scene, tracking, cameraVars, themeVars, timerVars,
                  faceModel, readyState, renderTicks >>

\* The guard at the head of detectFace: `if (!faceModel || !video) return`
\* (video is set by setupWebcam before its first await).
DetectGuard(model) ==
  model

\* blazeface.load() resolves: faceModel is set, detectFace() runs up to its
\* await and the morph timeout is set.
ModelLoadResolve ==
  /\ webcamPc = "load"
  /\ webcamPc' = "done"
  /\ faceModel' = TRUE
  /\ IF DetectGuard(faceModel')
     THEN /\ estimatesInFlight' = estimatesInFlight + 1
          /\ detectTicks' = detectTicks + 1
     ELSE UNCHANGED << estimatesInFlight, detectTicks >>
  /\ UNCHANGED detectScheduled
  /\ morphTimer' = "pending"
  /\ timerTime' = 0
  /\ UNCHANGED << scene, targetRotationX, targetRotationY, cameraVars,
                  themeVars, readyState, renderTicks >>

\* Mutant: detection is started although the detector failed to load.
ModelLoadRejectStartsDetection ==
  /\ webcamPc = "load"
  /\ webcamPc' = "detectorFailed"
  /\ estimatesInFlight' = estimatesInFlight + 1
  /\ detectTicks' = detectTicks + 1
  /\ UNCHANGED << scene, targetRotationX, targetRotationY, detectScheduled,
                  cameraVars, themeVars, timerVars, faceModel, readyState,
                  renderTicks >>

\* blazeface.load() rejects: catch block; detectFace and the timeout are
\* never reached.
ModelLoadReject ==
  /\ webcamPc = "load"
  /\ webcamPc' = "detectorFailed"
  /\ UNCHANGED << scene, tracking, cameraVars, themeVars, timerVars,
                  faceModel, readyState, renderTicks >>

\* The playing video runs out of buffered data or gets it back.
VideoReadyChange ==
  /\ webcamPc \in {"load", "done", "detectorFailed"}
  /\ readyState' = IF readyState = 4 THEN 2 ELSE 4
  /\ UNCHANGED << scene, tracking, cameraVars, themeVars, timerVars,
                  faceModel, webcamPc, renderTicks >>


\* ------------------------------------------------------- timer and tweens
\* Time passes while the morph timeout is pending.
ClockTick ==
  /\ morphTimer = "pending"
  /\ timerTime < MorphDelay
  /\ timerTime' = timerTime + 1
  /\ UNCHANGED << scene, tracking, cameraVars, themeVars, morphTimer,
                  faceModel, readyState, webcamPc, renderTicks >>

\* Mutant: the morph is triggered without waiting for the delay.
TimerDueAtOnce ==
  morphTimer = "pending"

\* setTimeout(triggerMorphSequence, 2000): the callback may run once the
\* delay has passed.
TimerDue ==
  morphTimer = "pending" /\ timerTime >= MorphDelay

\* triggerMorphSequence: the state changes and the two tweens are created.
TriggerMorphSequence ==
  /\ TimerDue
  /\ morphTimer' = "fired"
  /\ currentState' = "morphing"
  /\ animObj' = 0
  /\ morphTween' = "active"
  /\ rotationTween' = [active |-> TRUE, from |-> rotation]
  /\ tweenTime' = 0
  /\ UNCHANGED << positions, colors, rotation, canvasData, tracking,
                  cameraVars, themeVars, timerTime, faceModel, readyState,
                  webcamPc, renderTicks >>

\* Mutant: the completion callback returns to the start state.
MorphCompleteResets ==
  "sphere"

\* onComplete of the morph tween.
MorphComplete ==
  "face"

\* One tick of the gsap ticker, d time steps after the previous one: every
\* active tween is rendered at the new time (onUpdate) and a tween that has
\* reached its duration then completes (onComplete).
GsapTick(d) ==
  /\ morphTween = "active" \/ rotationTween.active
  /\ tweenTime' = Min(tweenTime + d, MorphDuration)
  /\ IF morphTween = "active"
     THEN /\ animObj' = EasePower3InOut(tweenTime')
          /\ positions' = MorphUpdate(animObj')
          /\ IF tweenTime' >= MorphDuration
             THEN /\ currentState' = MorphComplete
                  /\ morphTween' = "done"
             ELSE UNCHANGED << currentState, morphTween >>
     ELSE UNCHANGED << animObj, positions, currentState, morphTween >>
  /\ IF rotationTween.active
     THEN LET e == Min(tweenTime', ResetDuration)
          IN  /\ rotation' = ResetUpdate(rotationTween.from, e)
              /\ rotationTween' = [rotationTween EXCEPT !.active = (e < ResetDuration)]
     ELSE UNCHANGED << rotation, rotationTween >>
  /\ UNCHANGED << colors, canvasData, tracking, cameraVars, themeVars,
                  timerVars, faceModel, readyState, webcamPc, renderTicks >>

\* ---------------------------------------------------------------- animate
\* Mutant: a frame counts as ready from HAVE_CURRENT_DATA on.
FrameReadyEarly(rs) ==
  rs >= 2

\* `if (!video || video.readyState !== 4) return` of updateParticlesFromVideo.
FrameReady(rs) ==
  rs = 4

\* Mutant: the idle branch also smooths toward the rotation target.
AnimateRotationAlwaysTracks(state, rot, tx, ty) ==
  CASE state = "sphere"   -> [IdleSpin(rot) EXCEPT !.x = SmoothRotation(@, tx),
                                                   !.y = SmoothRotation(@, ty)]
    [] state = "morphing" -> rot
    [] state = "face"     -> [rot EXCEPT !.x = SmoothRotation(@, tx),
                                         !.y = SmoothRotation(@, ty)]

\* The rotation branch of animate for each state.
AnimateRotation(state, rot, tx, ty) ==
  CASE state = "sphere"   -> IdleSpin(rot)
    [] state = "morphing" -> rot
    [] state = "face"     -> [rot EXCEPT !.x = SmoothRotation(@, tx),
                                         !.y = SmoothRotation(@, ty)]

\* Mutant: animate waits for the pending estimateFaces.
AnimateAwaitsDetection ==
  renderTicks < MaxRenderTicks /\ detectPc # "estimating"

\* `requestAnimationFrame(animate)` is the first statement of animate, so a
\* call of animate is always pending (up to the model's horizon).
AnimateScheduled ==
  renderTicks < MaxRenderTicks

\* Mutant: the smoothed depth is written to the y slot (i3 + 1).
UpdatePositionsWrongSlot(pos, data) ==
  [p \in Particles |-> [pos[p] EXCEPT ![2] = SampleDepth(pos[p][3], data[p])]]

\* The position writes of updateParticlesFromVideo: positions[i3 + 2] only.
UpdatePositions(pos, data) ==
  [p \in Particles |-> [pos[p] EXCEPT ![3] = SampleDepth(@, data[p])]]

\* The body of animate.  In 'face' it runs updateParticlesFromVideo on the
\* video's current frame, one of `frames`.
Animate(frames) ==
  /\ renderTicks' = renderTicks + 1
  /\ IF currentState = "face" /\ FrameReady(readyState)
     THEN \E frame \in frames :
            /\ canvasData' = DrawMirrored(frame)
            /\ positions' = UpdatePositions(positions, canvasData')
            /\ colors' = [p \in Particles |-> SampleColor(currentTheme, canvasData'[p])]
     ELSE UNCHANGED << canvasData, positions, colors >>
  /\ rotation' = AnimateRotation(currentState, rotation, targetRotationX, targetRotationY)
  /\ UNCHANGED << currentState, animObj, morphTween, rotationTween, tweenTime,
                  tracking, cameraVars, themeVars, timerVars, faceModel,
                  readyState, webcamPc >>

\* The render tick: animate, called by requestAnimationFrame.
RenderTick ==
  AnimateScheduled /\ Animate(Frames)

\* ------------------------------------------------------------- detectFace
\* Mutant: the next tick is requested only in the branch that found a face.
RescheduleOnFace(predictions) ==
  IF Len(predictions) > 0 THEN 1 ELSE 0

\* Mutant: the next tick is requested in the branch and again at the end.
RescheduleTwice(predictions) ==
  IF Len(predictions) > 0 THEN 2 ELSE 1

\* requestAnimationFrame(detectFace) at the end of detectFace: the number of
\* callbacks it requests.
Reschedule(predictions) ==
  1

\* detectFace called by requestAnimationFrame, up to its await.
DetectFace ==
  /\ detectScheduled > 0
  /\ detectTicks < MaxDetectTicks
  /\ detectTicks' = detectTicks + 1
  /\ detectScheduled' = detectScheduled - 1
  /\ estimatesInFlight' =
       IF DetectGuard(faceModel) THEN estimatesInFlight + 1 ELSE estimatesInFlight
  /\ UNCHANGED << scene, targetRotationX, targetRotationY, cameraVars,
                  themeVars, timerVars, faceModel, readyState, webcamPc,
                  renderTicks >>

\* estimateFaces resolves and detectFace runs to its end.
EstimateDone(predictions) ==
  /\ estimatesInFlight > 0
  /\ LET t == TrackFace(predictions, targetRotationX, targetRotationY)
     IN  /\ targetRotationX' = t[1]
         /\ targetRotationY' = t[2]
  /\ estimatesInFlight' = estimatesInFlight - 1
  /\ detectScheduled' = detectScheduled + Reschedule(predictions)
  /\ UNCHANGED << scene, detectTicks, cameraVars, themeVars, timerVars,
                  faceModel, readyState, webcamPc, renderTicks >>

\* ------------------------------------------------------------ UI handlers
\* Mutant: the lookup misses the key and falls back to the default theme.
ThemeLookupDefault(name) ==
  IF name = "matrix" THEN themes["cosmic"] ELSE themes[name]

\* themes[name] of changeTheme.
ThemeLookup(name) ==
  themes[name]

\* changeTheme(name), called by the theme buttons.  The button highlight and
\* the header gradient are DOM styling and are not modelled.
ChangeTheme(name) ==
  /\ currentTheme' = ThemeLookup(name)
  /\ lastThemeCmd' = name
  /\ UNCHANGED << scene, tracking, cameraVars, timerVars, faceModel,
                  readyState, webcamPc, renderTicks >>

\* Mutant: in portrait the camera is moved back from where it is.
ResizeStepsBack(aspect) ==
  /\ innerAspect' = aspect
  /\ cameraZ' = IF aspect < 100 THEN Min(cameraZ + 5, 60) ELSE 25
  /\ cameraAspect' = aspect
  /\ rendererSize' = aspect
  /\ resized' = TRUE
  /\ UNCHANGED << scene, tracking, themeVars, timerVars, faceModel,
                  readyState, webcamPc, renderTicks >>

\* The resize listener: adjustCamera and renderer.setSize.
Resize(aspect) ==
  /\ innerAspect' = aspect
  /\ cameraZ' = CameraDistance(aspect)
  /\ cameraAspect' = aspect
  /\ rendererSize' = aspect
  /\ resized' = TRUE
  /\ UNCHANGED << scene, tracking, themeVars, timerVars, faceModel,
                  readyState, webcamPc, renderTicks >>

\* ------------------------------------------------------------------ specs
\* The steps of the program and of its environment (camera, detector, clock,
\* viewport).
ProgramNext ==
  \/ GetUserMediaResolve
  \/ GetUserMediaReject
  \/ LoadedMetadata
  \/ PlayResolve
  \/ PlayReject
  \/ ModelLoadResolve
  \/ ModelLoadReject
  \/ VideoReadyChange
  \/ ClockTick
  \/ TriggerMorphSequence
  \/ \E d \in 1 .. MorphDuration : GsapTick(d)
  \/ RenderTick
  \/ DetectFace
  \/ \E predictions \in Predictions : EstimateDone(predictions)
  \/ \E aspect \in Aspects : Resize(aspect)

\* The theme buttons.
ThemeNext ==
  \E name \in ThemeKeys : ChangeTheme(name)

Next ==
  ProgramNext \/ ThemeNext

Spec ==
  Init /\ [][Next]_vars

\* The program left to itself, under fair scheduling: the browser runs every
\* pending requestAnimationFrame callback and a pending estimateFaces
\* settles.  The theme buttons are left out: currentTheme is read only by
\* the colour computation of the sampler and schedules nothing.
LiveSpec ==
  /\ Init
  /\ [][ProgramNext]_vars
  /\ WF_vars(RenderTick)
  /\ WF_vars(DetectFace)
  /\ WF_vars(\E predictions \in Predictions : EstimateDone(predictions))

\* ------------------------------------------------------- smoothing runs
\* The program as the morph tween's onComplete leaves it, with the theme a
\* button has chosen and the rotation target the detection ticks so far have
\* set; renderTicks counts the calls of animate from here on.
SteadyInit ==
  /\ currentState = "face"
  /\ \E t \in {<<0, 0>>} \cup {TrackFace(<<b>>, 0, 0) : b \in {BoxA, BoxB}} :
       /\ targetRotationX = t[1]
       /\ targetRotationY = t[2]
       /\ detectTicks = IF t = <<0, 0>> THEN 1 ELSE 2
  /\ lastThemeCmd \in ThemeKeys
  /\ currentTheme = ThemeLookup(lastThemeCmd)
  /\ positions = gridPositions
  /\ colors = InitColors
  /\ rotation = [x |-> 0, y |-> 0, z |-> 0]
  /\ canvasData = [p \in Particles |-> <<0, 0, 0, 0>>]
  /\ innerAspect \in Aspects
  /\ cameraZ = CameraDistance(innerAspect)
  /\ cameraAspect = innerAspect
  /\ rendererSize = innerAspect
  /\ webcamPc = "done"
  /\ faceModel = TRUE
  /\ readyState = 4
  /\ morphTimer = "fired"
  /\ timerTime = MorphDelay
  /\ animObj = 1000
  /\ morphTween = "done"
  /\ rotationTween = [active |-> FALSE, from |-> IdleSpin([x |-> 0, y |-> 0, z |-> 0])]
  /\ tweenTime = MorphDuration
  /\ estimatesInFlight = 1
  /\ detectScheduled = 0
  /\ resized = FALSE
  /\ renderTicks = 0

\* A call of animate while the video shows one and the same frame and the
\* estimate in flight has not settled.
SteadyTick ==
  /\ renderTicks < MaxSmoothTicks
  /\ Animate({frame \in SteadyFrames :
                (\A p \in Particles : canvasData[p] = <<0, 0, 0, 0>>)
                  \/ DrawMirrored(frame) = canvasData})

SteadySpec ==
  SteadyInit /\ [][SteadyTick]_vars


\* ----------------------------------------------------------------- claims
\* C1: the animation state only moves sphere -> morphing -> face: every
\* step either keeps the state or takes the next transition of that order, so
\* no step goes back, none skips 'morphing', and each transition is taken at
\* most once.
C1_StateOrder ==
  [][ \/ currentState' = currentState
      \/ currentState = "sphere" /\ currentState' = "morphing"
      \/ currentState = "morphing" /\ currentState' = "face" ]_vars

\* Both transitions have been taken.
C1_Witness ==
  currentState = "face" /\ morphTimer = "fired" /\ morphTween = "done"

\* C2: the state leaves 'sphere' only after setupWebcam has passed
\* video.play() and blazeface.load() and the whole delay has been waited; as
\* long as the timeout is pending the state is 'sphere'.
C2_MorphAfterReadyAndDelay ==
  /\ currentState # "sphere" =>
       /\ webcamPc = "done"
       /\ faceModel
       /\ morphTimer = "fired"
       /\ timerTime >= MorphDelay
  /\ morphTimer = "pending" =>
       /\ currentState = "sphere"
       /\ webcamPc = "done"
       /\ faceModel

\* The morph has been triggered, after the delay.
C2_Witness ==
  currentState = "morphing" /\ morphTimer = "fired" /\ timerTime = MorphDelay


\* No sampler tick has drawn a frame: the canvas is still transparent.
CanvasBlank ==
  \A p \in Particles : canvasData[p] = <<0, 0, 0, 0>>

\* The rotation after init and n render ticks that all ran the idle spin.
IdleRotation(n) ==
  [x |-> 0, y |-> 3 * (n + 1), z |-> n + 1]

\* C3: once getUserMedia has rejected, in every state the animation state is
\* 'sphere', the morph timeout is never set, no detection tick and no sampler
\* tick has run (buffers as created), every render tick so far was an idle
\* spin, and the render ticks go on up to the horizon of the model.
C3_CameraFailureStaysIdle ==
  /\ [](webcamPc = "cameraFailed" =>
          /\ currentState = "sphere"
          /\ morphTimer = "unset"
          /\ detectPc = "idle"
          /\ detectTicks = 0
          /\ CanvasBlank
          /\ positions = spherePositions
          /\ colors = InitColors
          /\ rotation = IdleRotation(renderTicks))
  /\ (webcamPc = "cameraFailed" ~>
        (renderTicks = MaxRenderTicks /\ rotation = IdleRotation(MaxRenderTicks)))

\* The camera failed and the render ticks went on.
C3_Witness ==
  webcamPc = "cameraFailed" /\ renderTicks = MaxRenderTicks

\* C4: the step that changes the state to 'face' is the one that writes the
\* final update: after it animObj.t is 1 and the live position table equals
\* the grid table for every particle; the completion happens once, the tween
\* never being active again.
C4_FaceAfterFinalUpdate ==
  /\ [][ (currentState # "face" /\ currentState' = "face") =>
           /\ animObj' = 1000
           /\ \A p \in Particles : \A c \in 1 .. 3 :
                positions'[p][c] = gridPositions[p][c]
           /\ morphTween = "active"
           /\ morphTween' = "done" ]_vars
  /\ [][ morphTween = "done" => morphTween' = "done" ]_vars

\* The state has just become 'face': no render tick has touched the grid yet.
C4_Witness ==
  /\ currentState = "face"
  /\ morphTween = "done"
  /\ \A p \in Particles : \A c \in 1 .. 3 : positions[p][c] = gridPositions[p][c]

\* C5: a render tick in 'face' while video.readyState is not 4 leaves the
\* position table, the color table and the canvas as they were, and the tick
\* runs to its end: the head tracking of the same tick is applied.
C5_NoFrameNoOp ==
  [][ (renderTicks' # renderTicks /\ currentState = "face" /\ readyState # 4) =>
        /\ positions' = positions
        /\ colors' = colors
        /\ canvasData' = canvasData
        /\ rotation' = AnimateRotation("face", rotation, targetRotationX, targetRotationY) ]_vars

\* A render tick has run in 'face' (the rotation follows a target) while no
\* frame was ever ready (nothing was drawn).
C5_Witness ==
  /\ currentState = "face"
  /\ readyState # 4
  /\ CanvasBlank
  /\ rotation.y # 0


C7_RenderNeverWaits ==
  /\ [](renderTicks < MaxRenderTicks => ENABLED RenderTick)
  /\ [][ (renderTicks' # renderTicks /\ currentState = "face") =>
           /\ rotation'.x = rotation.x + Quot(targetRotationX - rotation.x, 10)
           /\ rotation'.y = rotation.y + Quot(targetRotationY - rotation.y, 10)
           /\ rotation'.z = rotation.z
           /\ targetRotationX' = targetRotationX
           /\ targetRotationY' = targetRotationY ]_vars

\* Two render ticks in 'face' have reused the same target while the next
\* estimate is still pending.
C7_Witness ==
  /\ currentState = "face"
  /\ detectPc = "estimating"
  /\ targetRotationY # 0
  /\ rotation.y = SmoothRotation(SmoothRotation(0, targetRotationY), targetRotationY)
  /\ rotation.x = SmoothRotation(SmoothRotation(0, targetRotationX), targetRotationX)

\* C8: in every state exactly one of the five themes is active, the one named
\* by the last changeTheme command, and a sampler tick with a ready frame
\* colors every particle with that theme.
C8_ThemeSwitchAtomic ==
  /\ [](/\ Cardinality({k \in ThemeKeys : themes[k] = currentTheme}) = 1
        /\ currentTheme = themes[lastThemeCmd])
  /\ [][ (renderTicks' # renderTicks /\ currentState = "face" /\ readyState = 4) =>
           \A p \in Particles :
             /\ canvasData'[p][4] = 255
             /\ colors'[p] = SampleColor(themes[lastThemeCmd], canvasData'[p]) ]_vars

\* After changeTheme('matrix') a sampler tick has colored the particles.
C8_Witness ==
  /\ currentState = "face"
  /\ lastThemeCmd = "matrix"
  /\ ~CanvasBlank
  /\ \A p \in Particles : colors[p] = SampleColor(themes["matrix"], canvasData[p])
  /\ \E p \in Particles : colors[p] # SampleColor(themes["cosmic"], canvasData[p])

\* C9: once blazeface.load() has rejected, no detection tick has run or is
\* pending and the rotation target is (0,0), in every state.
C9_DetectorFailureDisablesTracking ==
  webcamPc = "detectorFailed" =>
    /\ detectTicks = 0
    /\ detectPc = "idle"
    /\ ~faceModel
    /\ targetRotationX = 0
    /\ targetRotationY = 0

\* The detector failed and the program went on rendering.
C9_Witness ==
  webcamPc = "detectorFailed" /\ renderTicks = MaxRenderTicks

\* C10 as stated: every component of the color table lies in [0,1].
C10_ColorsInUnitRange ==
  \A p \in Particles : \A c \in 1 .. 3 : colors[p][c] >= 0 /\ colors[p][c] <= 1000

\* C10, amended: every component of the color table lies in [0,1.2], the
\* theme colour times the brightness plus a fifth of the raw colour, and in
\* [0,1] as long as no sampler tick has drawn a frame.
C10_ColorsBounded ==
  /\ \A p \in Particles : \A c \in 1 .. 3 : colors[p][c] >= 0 /\ colors[p][c] <= 1200
  /\ CanvasBlank => C10_ColorsInUnitRange

\* A sampler tick has written a component above 1.
C10_Witness ==
  /\ currentState = "face"
  /\ ~CanvasBlank
  /\ \E p \in Particles : \E c \in 1 .. 3 : colors[p][c] > 1000


\* The x (c = 1), y (c = 2) or z (c = 3) components of the grid table.
GridComponents(c) ==
  {gridPositions[p][c] : p \in Particles}

\* C11 as stated: from init on, in every animation state, over all particles
\* the grid's x runs from -width/2 to +width/2 (width 32), its y from
\* -height/2 to +height/2 (height 25), and every z is 0.
C11_GridCoversBounds ==
  /\ currentState \in {"sphere", "morphing", "face"}
  /\ \A x \in GridComponents(1) : -16000 <= x /\ x <= 16000
  /\ -16000 \in GridComponents(1)
  /\ 16000 \in GridComponents(1)
  /\ \A y \in GridComponents(2) : -12500 <= y /\ y <= 12500
  /\ -12500 \in GridComponents(2)
  /\ 12500 \in GridComponents(2)
  /\ GridComponents(3) = {0}

\* The cover-fit distance of the claim for an aspect ratio in hundredths, in
\* thousandths: 0.9 * min(distHeight, distWidth) with fov 75 degrees
\* (tan(37.5 degrees) = 0.767), world width 32 and world height 25.
CoverFitDistance(aspect) ==
  LET distHeight == Quot(25 * 1000 * 1000, 2 * 767)
      distWidth  == Quot(Quot(32 * 1000 * 1000, 2 * 767) * 100, aspect)
  IN  Quot(Min(distHeight, distWidth) * 9, 10)

\* C12 as stated: the camera distance is the cover-fit distance for the
\* current viewport (to within 0.01).
C12_CameraCoverFit ==
  /\ cameraZ * 1000 - CoverFitDistance(innerAspect) <= 10
  /\ CoverFitDistance(innerAspect) - cameraZ * 1000 <= 10


\* A step of the resize listener: its first run, or a change of the viewport.
ResizeStep ==
  (~resized /\ resized') \/ innerAspect' # innerAspect

\* C13: in every state, after any number of resizes, the camera distance, the
\* camera aspect and the renderer size are those of one adjustCamera for the
\* current viewport; a resize to the viewport as it is leaves the camera as
\* it was; and a resize changes neither the animation state, the position and
\* color tables, the applied rotation nor the rotation target.
C13_ResizeIdempotent ==
  /\ [](/\ cameraZ = CameraDistance(innerAspect)
        /\ cameraAspect = innerAspect
        /\ rendererSize = innerAspect)
  /\ [][ ResizeStep =>
           /\ innerAspect' = innerAspect =>
                (cameraZ' = cameraZ /\ cameraAspect' = cameraAspect)
           /\ UNCHANGED << currentState, positions, colors, rotation, canvasData,
                           targetRotationX, targetRotationY, currentTheme >> ]_vars

\* The resize listener has run and the program is face-locked with sampled
\* buffers.
C13_Witness ==
  resized /\ currentState = "face" /\ ~CanvasBlank /\ cameraZ = 40


\* C14: the start of the morph tween and every update of it leave, for every
\* particle and each of the three components, sphere + (grid - sphere) * t in
\* the live table, with t the eased parameter of that update; at t = 0 the
\* table is the sphere table and at t = 1 it is the grid table.
C14_MorphLerp ==
  [][ (morphTween' # morphTween \/ (morphTween = "active" /\ tweenTime' # tweenTime)) =>
        /\ \A p \in Particles : \A c \in 1 .. 3 :
             positions'[p][c] =
               spherePositions[p][c]
                 + Quot((gridPositions[p][c] - spherePositions[p][c]) * animObj', 1000)
        /\ animObj' = 0 => positions' = spherePositions
        /\ animObj' = 1000 => positions' = gridPositions ]_vars

\* The morph tween has updated the table at a parameter strictly inside (0, 1).
C14_Witness ==
  /\ morphTween = "active"
  /\ animObj > 0 /\ animObj < 1000
  /\ tweenTime > 0
  /\ positions # spherePositions /\ positions # gridPositions


\* C17: in 'face', whatever sampler, render and detection ticks, theme changes
\* and resizes have run, the x and y of every live position are those of the
\* grid table.
C17_FaceKeepsGridXY ==
  currentState = "face" =>
    \A p \in Particles :
      /\ positions[p][1] = gridPositions[p][1]
      /\ positions[p][2] = gridPositions[p][2]

\* Face-locked, the sampler has moved a depth and rewritten the colours, a
\* theme button was pressed and the window was resized.
C17_Witness ==
  /\ currentState = "face"
  /\ ~CanvasBlank
  /\ \E p \in Particles : positions[p][3] # gridPositions[p][3]
  /\ colors # InitColors
  /\ resized
  /\ lastThemeCmd # "none"
  /\ detectTicks = MaxDetectTicks

\* C18: before 'face' the sampler has not run (canvas, colours as created); in
\* 'sphere' the live table is the sphere table and the applied rotation is
\* the idle spin of the render ticks so far, whatever the rotation target is;
\* in 'morphing' the applied rotation is the reset tween's value.
C18_NoTrackingBeforeFace ==
  /\ currentState # "face" => (CanvasBlank /\ colors = InitColors)
  /\ currentState = "sphere" =>
       /\ positions = spherePositions
       /\ rotation = IdleRotation(renderTicks)
  /\ currentState = "morphing" =>
       /\ \E n \in 0 .. MaxRenderTicks : rotationTween.from = IdleRotation(n)
       /\ rotation = ResetUpdate(rotationTween.from, Min(tweenTime, ResetDuration))

\* Idle, with a rotation target already set by a detection tick, and render
\* ticks run.
C18_Witness ==
  /\ currentState = "sphere"
  /\ targetRotationX # 0 /\ targetRotationY # 0
  /\ renderTicks = MaxRenderTicks

\* C19: in every state at most one detection request is in flight or
\* scheduled, none before the model has loaded; and a detection tick is
\* scheduled only by the step that completes the estimate in flight.
C19_OneDetectionRequest ==
  /\ [](/\ estimatesInFlight + detectScheduled <= 1
        /\ webcamPc # "done" => estimatesInFlight + detectScheduled = 0)
  /\ [][ detectScheduled' > detectScheduled =>
           (estimatesInFlight = 1 /\ estimatesInFlight' = 0) ]_vars

\* The loop has gone round: the last detection tick's estimate is in flight.
C19_Witness ==
  detectTicks = MaxDetectTicks /\ estimatesInFlight = 1 /\ detectScheduled = 0

\* C20: the reset tween has ended, with rotation (0,0,0), once the tween clock
\* has reached its duration, which is before the morph tween completes; the
\* step into 'face' leaves the applied rotation at (0,0,0); in 'face' the
\* roll is 0 and only a render tick changes the applied rotation.
C20_RotationResetBeforeFace ==
  /\ ResetDuration < MorphDuration
  /\ []((morphTimer = "fired" /\ tweenTime >= ResetDuration) =>
          (~rotationTween.active /\ rotation.z = 0))
  /\ []((currentState = "morphing" /\ tweenTime >= ResetDuration) =>
          rotation = [x |-> 0, y |-> 0, z |-> 0])
  /\ [][ (currentState # "face" /\ currentState' = "face") =>
           rotation' = [x |-> 0, y |-> 0, z |-> 0] ]_vars
  /\ [][ (currentState = "face" /\ rotation' # rotation) =>
           (renderTicks' = renderTicks + 1 /\ rotation'.z = 0) ]_vars

\* Face-locked: the render tick has turned the cloud toward the target.
C20_Witness ==
  /\ currentState = "face"
  /\ rotation.x # 0 /\ rotation.y # 0 /\ rotation.z = 0
  /\ rotationTween.from.z > 0


\* new lies between old and target, ends included.
Between(old, new, target) ==
  (old <= new /\ new <= target) \/ (target <= new /\ new <= old)

\* The distance of v from target.
Dist(v, target) ==
  IF v < target THEN target - v ELSE v - target

\* C15: under a fixed frame and a fixed rotation target, every tick leaves
\* each depth between its old value and the depth its pixel calls for, and
\* the applied x and y rotation between their old value and their target,
\* strictly nearer while farther than 0.01 away; after MaxSmoothTicks ticks
\* every depth and both angles are within 0.01 of their target.
C15_SmoothingConverges ==
  /\ [][ renderTicks' # renderTicks =>
           /\ \A p \in Particles :
                LET target == TargetZ(canvasData'[p])
                    old == positions[p][3]
                    new == positions'[p][3]
                IN  /\ Between(old, new, target)
                    /\ Dist(old, target) >= 10 => Dist(new, target) < Dist(old, target)
           /\ Between(rotation.x, rotation'.x, targetRotationX)
           /\ Between(rotation.y, rotation'.y, targetRotationY)
           /\ Dist(rotation.x, targetRotationX) >= 10 =>
                Dist(rotation'.x, targetRotationX) < Dist(rotation.x, targetRotationX)
           /\ Dist(rotation.y, targetRotationY) >= 10 =>
                Dist(rotation'.y, targetRotationY) < Dist(rotation.y, targetRotationY) ]_vars
  /\ [](renderTicks = MaxSmoothTicks =>
          /\ \A p \in Particles : Dist(positions[p][3], TargetZ(canvasData[p])) <= 10
          /\ Dist(rotation.x, targetRotationX) <= 10
          /\ Dist(rotation.y, targetRotationY) <= 10)

\* A run has ended with a depth and both angles moved far from where they
\* started.
C15_Witness ==
  /\ renderTicks = MaxSmoothTicks
  /\ \E p \in Particles : positions[p][3] > 5000
  /\ targetRotationX # 0 /\ Dist(rotation.x, 0) > 90
  /\ targetRotationY # 0 /\ Dist(rotation.y, 0) > 90

\* The colour table a sampler tick writes for the canvas under a theme.
SampledColors(name) ==
  [p \in Particles |-> SampleColor(themes[name], canvasData[p])]

\* C16 as stated: for whatever frame has been sampled, the colour table under
\* "matrix" differs from the one under "cosmic" for the same frame.
C16_ThemesDifferOnAnyFrame ==
  ~CanvasBlank =>
    /\ SampledColors("matrix") # SampledColors("cosmic")
    /\ lastThemeCmd = "matrix" => colors # SampledColors("cosmic")
    /\ lastThemeCmd = "cosmic" => colors # SampledColors("matrix")

\* C16: for a sampled frame with a pixel of nonzero brightness, the colour
\* table a sampler tick writes under "matrix" differs from the one a tick
\* writes under "cosmic" for the same frame.
C16_ThemesDifferOnLitFrame ==
  (~CanvasBlank /\ \E p \in Particles : Brightness(canvasData[p]) > 0) =>
    /\ SampledColors("matrix") # SampledColors("cosmic")
    /\ lastThemeCmd = "matrix" => colors # SampledColors("cosmic")
    /\ lastThemeCmd = "cosmic" => colors # SampledColors("matrix")

\* A sampler tick has run under "matrix" on a lit frame.
C16_Witness ==
  /\ lastThemeCmd = "matrix"
  /\ ~CanvasBlank
  /\ \E p \in Particles : Brightness(canvasData[p]) > 0
  /\ colors = SampledColors("matrix")
  /\ renderTicks > 0

============================================================================
